---- MODULE Spec2Model ----
(***************************************************************************)
(* Treatment & chart ledger of the dental practice application.            *)
(*                                                                         *)
(* One browser session of the Treatment page (src/app/pages/1_Treatment.py)*)
(* working against the document store, together with the Settings page     *)
(* (src/app/pages/5_Settings.py) that owns the procedure list, the price    *)
(* table and the health conditions, the Inventory page                     *)
(* (src/app/pages/2_Inventory.py) with its stock and its expiry alerts,    *)
(* and the sign-in of the dashboard (src/app/Dashboard.py).  One action is *)
(* one script run triggered by one button or one changed widget.           *)
(***************************************************************************)
EXTENDS Integers, Sequences, FiniteSets, TLC

VARIABLES
    doctor_email,          \* st.session_state["doctor_email"]
    patient_status,        \* st.session_state.patient_status
    patient_selected,      \* st.session_state.patient_selected
    treatment_record,      \* st.session_state.treatment_record (the ledger)
    procedures_to_delete,  \* rows marked for deletion in the submitted form
    button,                \* the button that triggered the last run
    notice,                \* the message the last run displayed
    wrote,                 \* the store field the last run tried to write
    discount_amount,       \* st.session_state["discount_amount"] (hundredths)
    tax_apply,             \* st.session_state["tax_apply"]
    cost_summary,          \* the cost summary the last run computed
    report,                \* what generate_pdf received and wrote in the last run
    edit_patient,          \* st.session_state["edit_patient"]
    dental_chart,          \* st.session_state.patient_selected["dental_chart"]
    tooth_condition,       \* st.session_state["tooth_condition_<tooth>"]
    chart_changed,         \* chart_changed of the last run's render_chart
    chart_notice,          \* the message of the last run's chart section
    tooth_selected,        \* st.session_state.tooth_selected
    email_alert_sent,      \* st.session_state["email_alert_sent"]
    enable_email_alerts,   \* st.session_state["enable_email_alerts"]
    alert_email,           \* st.session_state["alert_email"]
    matching_items,        \* st.session_state.matching_items (their ids)
    alert_notice,          \* what the last run did about the automatic alert
    page_access,           \* the last run went past a page's authentication check
    parked,                \* the session state of a second browser session
    patients,              \* store: doctors/<doctor>/patients/<file_id>
    charts,                \* store: the dental_chart field of those documents
    treatment_procedures,  \* store: settings/config.treatment_procedures
    price_estimates,       \* store: settings/config.price_estimates
    health_conditions,     \* store: settings/config.health_conditions
    stock,                 \* store: doctors/<doctor>/stock/<item id>
    alert_emails           \* store: the alert_email field of doctors/<doctor>

vars == <<doctor_email, patient_status, patient_selected, treatment_record,
          procedures_to_delete, button, notice, wrote, discount_amount,
          tax_apply, cost_summary, report, edit_patient, dental_chart,
          tooth_condition, chart_changed, chart_notice, tooth_selected,
          email_alert_sent, enable_email_alerts, alert_email, matching_items,
          alert_notice, page_access, parked, patients, charts,
          treatment_procedures, price_estimates, health_conditions, stock,
          alert_emails>>

settings == <<treatment_procedures, price_estimates, health_conditions>>

\* the session state of the chart section and what its last run reported
chart_session ==
    <<dental_chart, tooth_condition, chart_changed, chart_notice, tooth_selected>>

\* the session state of the Inventory page and what its last run reported
inventory_session ==
    <<email_alert_sent, enable_email_alerts, alert_email, matching_items,
      alert_notice>>

\* the Inventory page: its session state and its part of the store
inventory_page == <<inventory_session, stock, alert_emails>>

\* Faulty variant: the pages run their body without a signed-in doctor.
authenticated_always(email) == TRUE

\* The authentication check of a page: st.session_state.get("doctor_email")
\* is not None.  A session nobody is signed in to holds no doctor_email ("").
authenticated(email) == email # ""

\* A run of the Treatment or of the Settings page that went past the
\* authentication check (1_Treatment.py:93-100, 5_Settings.py:15-26): the
\* page loads the doctor's settings from the store.  The Inventory page and
\* the other browser session are not involved.
PageRun ==
    /\ authenticated(doctor_email)
    /\ page_access' = TRUE
    /\ UNCHANGED <<inventory_page, parked>>

(***************************************************************************)
(* Bounds of the exploration.                                              *)
(***************************************************************************)
MaxLedger == 2            \* rows a ledger may hold

Teeth == {"11", "12"}
ProcedureNames == {"Cleaning", "Filling"}
\* Money is counted in hundredths of the currency unit.
PriceInputs == {10000, 20000}
DiscountInputs == {-5000, 0, 5000, 40000}
FileIds == {"F1"}
Names == {"Ann"}
Ages == {30}
\* Days are counted from 2024-01-01 (day 0).  58 is 2024-02-28 and 365 is
\* 2024-12-31: the day after lies in a leap February, or in the next year.
Todays == {58}
StartDateInputs == {58, 365}
DurationInputs == {0, 1, 7}

(***************************************************************************)
(* Calendar: datetime.strftime("%Y-%m-%d"), datetime.strptime and          *)
(* timedelta(days=n).  A date object is its day number; a date string is   *)
(* the triple <<year, month, day>>.                                        *)
(***************************************************************************)
IsLeap(y) == (y % 4 = 0 /\ y % 100 # 0) \/ y % 400 = 0

DaysInYear(y) == IF IsLeap(y) THEN 366 ELSE 365

DaysInMonth(y, m) ==
    IF m = 2 THEN (IF IsLeap(y) THEN 29 ELSE 28)
    ELSE IF m \in {4, 6, 9, 11} THEN 30 ELSE 31

RECURSIVE YMDFrom(_, _, _)
YMDFrom(y, m, n) ==
    IF m = 1 /\ n >= DaysInYear(y) THEN YMDFrom(y + 1, 1, n - DaysInYear(y))
    ELSE IF n >= DaysInMonth(y, m) THEN YMDFrom(y, m + 1, n - DaysInMonth(y, m))
    ELSE <<y, m, n + 1>>

\* date.strftime("%Y-%m-%d")
strftime(date) == YMDFrom(2024, 1, date)

RECURSIVE DaysBeforeYear(_)
DaysBeforeYear(y) ==
    IF y <= 2024 THEN 0 ELSE DaysInYear(y - 1) + DaysBeforeYear(y - 1)

RECURSIVE DaysBeforeMonth(_, _)
DaysBeforeMonth(y, m) ==
    IF m <= 1 THEN 0 ELSE DaysInMonth(y, m - 1) + DaysBeforeMonth(y, m - 1)

\* datetime.strptime(str, "%Y-%m-%d")
strptime(str) == DaysBeforeYear(str[1]) + DaysBeforeMonth(str[1], str[2]) + str[3] - 1

\* date + timedelta(days=n)
plus_days(date, n) == date + n

(***************************************************************************)
(* Python dict and list helpers.                                           *)
(***************************************************************************)
\* dict.get(key, default)
get(dict, key, default) == IF key \in DOMAIN dict THEN dict[key] ELSE default

\* dict[key] = value
put(dict, key, value) ==
    [k \in DOMAIN dict \cup {key} |-> IF k = key THEN value ELSE dict[k]]

\* dict.pop(key) when key is present, no change otherwise
drop(dict, key) == [k \in DOMAIN dict \ {key} |-> dict[k]]

Range(seq) == {seq[i] : i \in 1..Len(seq)}

\* list.pop(i)
pop(seq, i) == [j \in 1..(Len(seq) - 1) |-> IF j < i THEN seq[j] ELSE seq[j + 1]]

StatusOptions == <<"Pending", "In Progress", "Completed">>

\* fetch_patient's None, and the session before a patient was selected.  The
\* dental_chart field of a patient document is kept in charts (store) and in
\* dental_chart (the session's copy).
NoPatient ==
    [name |-> "", age |-> 0, gender |-> "", file_id |-> "", treatment_plan |-> <<>>]

\* The session's copy of a patient document.  The page reads its name, file_id
\* and dental_chart; the ledger of the session is treatment_record, and the
\* copy's treatment_plan entry is not read again after the load.
selected(patient_info) == [patient_info EXCEPT !.treatment_plan = <<>>]

\* st.session_state.clear() followed by the module's initialisation
NoConditions == <<>>

(***************************************************************************)
(* Cost summary: the last section of a run of the Treatment page.          *)
(***************************************************************************)
RECURSIVE sum_cost(_)
sum_cost(record) ==
    IF record = <<>> THEN 0 ELSE Head(record).Cost + sum_cost(Tail(record))

\* Faulty variant: the discount is not clamped.
first_argument(a, b) == a

min(a, b) == IF a <= b THEN a ELSE b

\* total_price * 0.15, in hundredths
vat(total_price) == (total_price * 15) \div 100

\* Faulty variant: VAT is charged on the discounted total.
compute_summary_tax_after_discount(record, discount, tax) ==
    LET total_price == sum_cost(record)
        discount_calculation == min(discount, total_price)
        tax_calculation == IF tax THEN vat(total_price - discount_calculation) ELSE 0
    IN  [total_price |-> total_price,
         discount_calculation |-> discount_calculation,
         tax_calculation |-> tax_calculation,
         final_calculation |-> total_price - discount_calculation + tax_calculation]

compute_summary(record, discount, tax) ==
    LET total_price == sum_cost(record)
        tax_calculation == IF tax THEN vat(total_price) ELSE 0
        discount_calculation == min(discount, total_price)
    IN  [total_price |-> total_price,
         discount_calculation |-> discount_calculation,
         tax_calculation |-> tax_calculation,
         final_calculation |-> total_price - discount_calculation + tax_calculation]

\* the summary of a run that shows no discount and VAT inputs
NoInputsSummary(record) ==
    [total_price |-> sum_cost(record), discount_calculation |-> 0,
     tax_calculation |-> 0, final_calculation |-> sum_cost(record)]

\* The section runs with the ledger the handlers of the run left behind.  The
\* discount and VAT widgets exist only while a patient is active and the
\* ledger is not empty; a widget that is not rendered loses its value.
CostSection(active, record) ==
    IF active /\ record # <<>>
    THEN /\ UNCHANGED <<discount_amount, tax_apply>>
         /\ cost_summary' = compute_summary(record, discount_amount, tax_apply)
    ELSE /\ discount_amount' = 0
         /\ tax_apply' = FALSE
         /\ cost_summary' = NoInputsSummary(<<>>)

(***************************************************************************)
(* Dental chart: render_chart and the chart section of a run.              *)
(***************************************************************************)
\* dental_data[...]["teeth_rows"], row after row
teeth_rows == <<"11", "12">>

\* health_conditions.index(current_condition), or index 0 on ValueError
default_index(conditions, current_condition) ==
    IF current_condition \in Range(conditions)
    THEN CHOOSE i \in 1..Len(conditions) :
             /\ conditions[i] = current_condition
             /\ \A j \in 1..Len(conditions) : conditions[j] = current_condition => i <= j
    ELSE 1

\* The value of the selectbox of a tooth: the condition the user picked in
\* this run, or else the option at the default index.
selected_condition(conditions, current_condition, tooth_number, selection) ==
    IF tooth_number \in DOMAIN selection
    THEN selection[tooth_number]
    ELSE conditions[default_index(conditions, current_condition)]

\* Faulty variant: the selection is compared with the default condition.
tooth_changed_from_default(chart, tooth_number, condition) ==
    tooth_number \notin DOMAIN chart \/ condition # "Healthy"

\* line 394: the selection of a tooth changes the chart
tooth_changed(chart, tooth_number, condition) ==
    tooth_number \notin DOMAIN chart \/ chart[tooth_number] # condition

\* Faulty variant: every changed tooth is selected, healthy or not.
select_changed_tooth(tooth, tooth_number, condition) == tooth_number

\* lines 398-400, inside the branch of a changed tooth: a tooth changed to a
\* condition other than "Healthy" becomes st.session_state.tooth_selected
select_tooth(tooth, tooth_number, condition) ==
    IF condition # "Healthy" THEN tooth_number ELSE tooth

\* The loop over the teeth, from tooth i on.  `chart` is dental_chart (changed
\* in place), `session` the tooth_condition_<tooth> keys, `conditions` the
\* configured health_conditions, `selection` the selectors the user changed.
\* `tooth` is st.session_state.tooth_selected.
RECURSIVE render_teeth(_, _, _, _, _, _, _, _)
render_teeth(rows, i, chart, session, conditions, selection, changed, tooth) ==
    IF i > Len(rows)
    THEN [chart |-> chart, session |-> session, changed |-> changed,
          tooth_selected |-> tooth]
    ELSE LET tooth_number == rows[i]
             current_condition ==
                 get(session, tooth_number, get(chart, tooth_number, "Healthy"))
             condition == selected_condition(conditions, current_condition,
                                             tooth_number, selection)
         IN  IF tooth_changed(chart, tooth_number, condition)
             THEN render_teeth(rows, i + 1, put(chart, tooth_number, condition),
                               put(session, tooth_number, condition),
                               conditions, selection, TRUE,
                               select_tooth(tooth, tooth_number, condition))
             ELSE render_teeth(rows, i + 1, chart,
                               put(session, tooth_number, condition),
                               conditions, selection, changed, tooth)

\* render_chart(dental_data, dental_chart, doctor_settings).  The page's call
\* (1_Treatment.py:236) names no doctor_settings; the chart is modelled for
\* the settings document the page loaded (line 100), which is what the body
\* of render_chart reads its health_conditions from.
render_chart(chart, session, conditions, selection, tooth) ==
    render_teeth(teeth_rows, 1, chart, session, conditions, selection, FALSE,
                 tooth)

\* Faulty variant: the confirmation is shown before the write has returned.
chart_message_before_write(changed, written) ==
    IF changed THEN "chart_updated" ELSE "none"

\* lines 239-247: the confirmation follows the write, the error replaces it
chart_message(changed, written) ==
    IF ~changed THEN "none"
    ELSE IF written THEN "chart_updated"
    ELSE "chart_error"

\* The chart section of a run (1_Treatment.py:234-247): the chart is rendered
\* while a patient is active and written to the patient document when the
\* render reports a change.  `chart` and `session` are the chart and the
\* tooth_condition keys the handlers of the run left behind, `store` the
\* dental_chart fields after them, `ok` whether the store call returns without
\* raising.  The chart of the session is changed in place, written or not.
ChartSection(active, path, chart, session, store, selection, ok) ==
    IF active
    THEN \E rendered \in {render_chart(chart, session, health_conditions,
                                       selection, tooth_selected)} :
         LET written == ok /\ path \in DOMAIN store
         IN  /\ dental_chart' = rendered.chart
             /\ tooth_condition' = rendered.session
             /\ chart_changed' = rendered.changed
             /\ charts' = IF rendered.changed /\ written
                          THEN put(store, path, rendered.chart)
                          ELSE store
             /\ chart_notice' = chart_message(rendered.changed, written)
             /\ tooth_selected' = rendered.tooth_selected
    ELSE /\ dental_chart' = chart
         /\ UNCHANGED tooth_selected
         /\ tooth_condition' = session
         /\ chart_changed' = FALSE
         /\ chart_notice' = "none"
         /\ charts' = store

\* a run in which the user changes no tooth selector
NoSelection == <<>>

\* "tooth_selected" is not in st.session_state
NoTooth == ""

\* 1_Treatment.py:254: the tooth the "Tooth Number" selector of the treatment
\* form starts on: st.session_state.tooth_selected, or the first tooth
preselected_tooth(tooth) == IF tooth = NoTooth THEN teeth_rows[1] ELSE tooth

(***************************************************************************)
(* Store access of the Treatment page.  A patient document lives under its *)
(* doctor: doctors/<email>/patients/<file_id>.                             *)
(***************************************************************************)
path(email, file_id) == <<email, file_id>>

\* fetch_patient: the document as a dict, or None (NoPatient) when it is
\* absent or when the read raised (`fetched` is FALSE)
fetch_patient(email, file_id, fetched) ==
    IF fetched /\ path(email, file_id) \in DOMAIN patients
    THEN patients[path(email, file_id)]
    ELSE NoPatient

\* store_patient: document(file_id).set(patient_info); `ok` is whether the
\* store call returned without raising
store_patient(email, patient_info, ok) ==
    IF ok THEN put(patients, path(email, patient_info.file_id), patient_info)
    ELSE patients

\* modify_patient: document(file_id).update(patient_data)
modify_patient(email, file_id, patient_data, ok) ==
    IF ok /\ path(email, file_id) \in DOMAIN patients
    THEN [patients EXCEPT ![path(email, file_id)] =
              [@ EXCEPT !.name = patient_data.name, !.age = patient_data.age,
                        !.gender = patient_data.gender]]
    ELSE patients

\* Faulty variant: the list is written to every patient of the doctor.
modify_treatment_every_patient(email, file_id, record, ok) ==
    IF ok /\ path(email, file_id) \in DOMAIN patients
    THEN [f \in DOMAIN patients |->
              IF f[1] = email
              THEN [patients[f] EXCEPT !.treatment_plan = record]
              ELSE patients[f]]
    ELSE patients

\* Faulty variant: the entries are added to the stored list (ArrayUnion).
modify_treatment_merging(email, file_id, record, ok) ==
    IF ok /\ path(email, file_id) \in DOMAIN patients
    THEN [patients EXCEPT ![path(email, file_id)].treatment_plan =
              @ \o SelectSeq(record, LAMBDA e : e \notin Range(@))]
    ELSE patients

\* Faulty variant: the list is stored last entry first.
modify_treatment_reversed(email, file_id, record, ok) ==
    IF ok /\ path(email, file_id) \in DOMAIN patients
    THEN [patients EXCEPT ![path(email, file_id)].treatment_plan =
              [i \in 1..Len(record) |-> record[Len(record) + 1 - i]]]
    ELSE patients

\* modify_treatment: document(file_id).update({"treatment_plan": record})
modify_treatment(email, file_id, record, ok) ==
    IF ok /\ path(email, file_id) \in DOMAIN patients
    THEN [patients EXCEPT ![path(email, file_id)].treatment_plan = record]
    ELSE patients

\* the document of the session's patient
selected_path == path(doctor_email, patient_selected.file_id)

\* the report of a run that generated none
NoReport == [status |-> "none"]

(***************************************************************************)
(* Patient registration, search and clear.                                 *)
(***************************************************************************)
\* `fetched`, `ok` and `chart_ok`: whether the read of the file id, the write
\* of the new document and the write of its chart return without raising
RegisterPatient(patient_fullname, patient_age, patient_gender, file_id, fetched, ok, chart_ok) ==
    /\ PageRun
    /\ LET complete == patient_fullname # "" /\ patient_age # 0 /\ file_id # ""
           existing_patient == fetch_patient(doctor_email, file_id, fetched)
           patient_info ==
               [name |-> patient_fullname, age |-> patient_age,
                gender |-> patient_gender, file_id |-> file_id,
                treatment_plan |-> <<>>]
           stored == complete /\ existing_patient = NoPatient /\ ok
       IN  /\ wrote' = IF complete /\ existing_patient = NoPatient
                       THEN "patient" ELSE "none"
           /\ IF complete
              THEN IF existing_patient # NoPatient
                   THEN /\ notice' = "file_id_exists"
                        /\ patient_status' = FALSE
                        /\ UNCHANGED <<patient_selected, treatment_record, patients>>
                   ELSE /\ patients' = store_patient(doctor_email, patient_info, ok)
                        /\ IF ok
                           THEN /\ patient_status' = TRUE
                                /\ patient_selected' = selected(patient_info)
                                /\ treatment_record' = <<>>
                                /\ notice' = "registered"
                           ELSE /\ notice' = "db_error"
                                /\ UNCHANGED <<patient_status, patient_selected,
                                               treatment_record>>
              ELSE /\ notice' = "fields_required"
                   /\ patient_status' = FALSE
                   /\ UNCHANGED <<patient_selected, treatment_record, patients>>
           \* the new document holds an empty dental_chart
           /\ ChartSection(patient_status',
                           path(doctor_email, patient_selected'.file_id),
                           IF stored THEN <<>> ELSE dental_chart,
                           tooth_condition,
                           IF stored
                           THEN put(charts, path(doctor_email, file_id), <<>>)
                           ELSE charts,
                           NoSelection, chart_ok)
    /\ button' = "register"
    /\ procedures_to_delete' = {}
    /\ report' = NoReport
    /\ UNCHANGED <<doctor_email, edit_patient, settings>>
    /\ CostSection(patient_status', treatment_record')

\* lines 161-164: the conditions of the loaded chart are put in the session
loaded_conditions(session, chart) ==
    [t \in DOMAIN session \cup DOMAIN chart |->
         IF t \in DOMAIN chart THEN chart[t] ELSE session[t]]

SearchPatient(file_id, fetched, ok) ==
    /\ PageRun
    /\ file_id # ""
    /\ LET patient_info == fetch_patient(doctor_email, file_id, fetched)
           chart == get(charts, path(doctor_email, file_id), <<>>)
       IN  IF patient_info # NoPatient
           THEN /\ notice' = "patient_found"
                /\ patient_status' = TRUE
                /\ patient_selected' = selected(patient_info)
                /\ treatment_record' = patient_info.treatment_plan
                /\ ChartSection(TRUE, path(doctor_email, file_id), chart,
                                loaded_conditions(tooth_condition, chart),
                                charts, NoSelection, ok)
           ELSE /\ notice' = "patient_not_found"
                /\ patient_status' = FALSE
                /\ UNCHANGED <<patient_selected, treatment_record>>
                /\ ChartSection(FALSE, selected_path, dental_chart,
                                tooth_condition, charts, NoSelection, ok)
    /\ wrote' = "none"
    /\ button' = "search"
    /\ procedures_to_delete' = {}
    /\ report' = NoReport
    /\ UNCHANGED <<doctor_email, edit_patient, patients, settings>>
    /\ CostSection(patient_status', treatment_record')

\* "Clear Current Patient": the tooth_condition keys are deleted and the page
\* is run again without a patient
ClearPatient ==
    /\ PageRun
    /\ patient_status
    /\ patient_status' = FALSE
    /\ treatment_record' = <<>>
    /\ notice' = "none"
    /\ wrote' = "none"
    /\ button' = "clear"
    /\ procedures_to_delete' = {}
    /\ report' = NoReport
    /\ ChartSection(FALSE, selected_path, dental_chart, NoConditions, charts,
                    NoSelection, TRUE)
    /\ UNCHANGED <<doctor_email, edit_patient, patient_selected, patients, settings>>
    /\ CostSection(patient_status', treatment_record')

(***************************************************************************)
(* Add Procedure.                                                          *)
(***************************************************************************)
\* Faulty variant: the scan skips the first row.
existing_procedures_after_first(record, tooth_identifier, treatment_procedure) ==
    {i \in 2..Len(record) : /\ record[i].Tooth = tooth_identifier
                            /\ record[i].Procedure = treatment_procedure}

\* the rows of the ledger already holding this tooth and procedure
existing_procedures(record, tooth_identifier, treatment_procedure) ==
    {i \in 1..Len(record) : /\ record[i].Tooth = tooth_identifier
                            /\ record[i].Procedure = treatment_procedure}

\* the default schedule of a new entry
DefaultDuration == 7

\* Faulty variant: the new entry starts "In Progress".
new_procedure_in_progress(tooth_identifier, treatment_procedure, procedure_price, today) ==
    [Tooth |-> tooth_identifier,
     Procedure |-> treatment_procedure,
     Cost |-> procedure_price,
     Status |-> "In Progress",
     Duration |-> DefaultDuration,
     StartDate |-> strftime(today),
     EndDate |-> strftime(plus_days(today, 7))]

new_procedure(tooth_identifier, treatment_procedure, procedure_price, today) ==
    [Tooth |-> tooth_identifier,
     Procedure |-> treatment_procedure,
     Cost |-> procedure_price,
     Status |-> "Pending",
     Duration |-> DefaultDuration,
     StartDate |-> strftime(today),
     EndDate |-> strftime(plus_days(today, 7))]

AddProcedure(tooth_identifier, treatment_procedure, today, ok) ==
    /\ PageRun
    /\ patient_status
    /\ tooth_identifier \in Teeth
    /\ treatment_procedure \in Range(treatment_procedures)
    /\ \/ Len(treatment_record) < MaxLedger
       \/ existing_procedures(treatment_record, tooth_identifier,
                              treatment_procedure) # {}
    /\ button' = "add"
    /\ procedures_to_delete' = {}
    /\ LET procedure_price == get(price_estimates, treatment_procedure, 0)
           file_id == patient_selected.file_id
           written == ok /\ selected_path \in DOMAIN patients
       IN  IF existing_procedures(treatment_record, tooth_identifier,
                                  treatment_procedure) = {}
           THEN LET record == Append(treatment_record,
                                     new_procedure(tooth_identifier,
                                                   treatment_procedure,
                                                   procedure_price, today))
                IN  /\ treatment_record' = record
                    /\ patients' = modify_treatment(doctor_email, file_id, record, ok)
                    /\ wrote' = "treatment_plan"
                    /\ notice' = IF written THEN "procedure_added" ELSE "db_error"
           ELSE /\ notice' = "procedure_exists"
                /\ wrote' = "none"
                /\ UNCHANGED <<treatment_record, patients>>
    /\ report' = NoReport
    /\ ChartSection(TRUE, selected_path, dental_chart, tooth_condition, charts,
                    NoSelection, ok)
    /\ UNCHANGED <<doctor_email, edit_patient, patient_status, patient_selected,
                   settings>>
    /\ CostSection(patient_status', treatment_record')

(***************************************************************************)
(* Update Treatment Management.                                            *)
(***************************************************************************)
\* Faulty variant: the duration input has no lower bound.
DurationWidgetUnbounded(inputs) == inputs

\* st.number_input("Duration", min_value=1, ...): the values the widget returns
DurationWidgetValues(inputs) == {d \in inputs : d >= 1}

\* One row of the submitted form: the values of its five widgets.
FormRows(procedures, statuses, start_dates, durations, row_actions) ==
    [procedure : procedures, status : statuses, start_date : start_dates,
     duration : DurationWidgetValues(durations), action : row_actions]

\* Faulty variant: the marked rows are recorded one position too low.
marked_one_too_low(form) == {i - 1 : i \in {j \in DOMAIN form : form[j].action = "delete"}}

\* the rows whose action selector reads "delete"
marked_for_deletion(form) == {i \in DOMAIN form : form[i].action = "delete"}

\* Faulty variant: the price is looked up again on every update.
updated_procedure_repriced(item, row) ==
    LET start_date_str == strftime(row.start_date)
        end_date == plus_days(strptime(start_date_str), row.duration)
    IN  [Tooth |-> item.Tooth,
         Procedure |-> row.procedure,
         Cost |-> get(price_estimates, row.procedure, item.Cost),
         Status |-> row.status,
         Duration |-> row.duration,
         StartDate |-> start_date_str,
         EndDate |-> strftime(end_date)]

\* Faulty variant: the cost is never looked up again.
updated_procedure_same_cost(item, row) ==
    LET start_date_str == strftime(row.start_date)
        end_date == plus_days(strptime(start_date_str), row.duration)
    IN  [Tooth |-> item.Tooth,
         Procedure |-> row.procedure,
         Cost |-> item.Cost,
         Status |-> row.status,
         Duration |-> row.duration,
         StartDate |-> start_date_str,
         EndDate |-> strftime(end_date)]

\* Faulty variant: the end date is computed from the duration the row had.
updated_procedure_old_duration(item, row) ==
    LET procedure_price ==
            IF row.procedure # item.Procedure
            THEN get(price_estimates, row.procedure, item.Cost)
            ELSE item.Cost
        start_date_str == strftime(row.start_date)
        end_date == plus_days(strptime(start_date_str), item.Duration)
    IN  [Tooth |-> item.Tooth,
         Procedure |-> row.procedure,
         Cost |-> procedure_price,
         Status |-> row.status,
         Duration |-> row.duration,
         StartDate |-> start_date_str,
         EndDate |-> strftime(end_date)]

\* Faulty variant: a completed row stays completed.
updated_procedure_completed_is_final(item, row) ==
    LET procedure_price ==
            IF row.procedure # item.Procedure
            THEN get(price_estimates, row.procedure, item.Cost)
            ELSE item.Cost
        start_date_str == strftime(row.start_date)
        end_date == plus_days(strptime(start_date_str), row.duration)
    IN  [Tooth |-> item.Tooth,
         Procedure |-> row.procedure,
         Cost |-> procedure_price,
         Status |-> IF item.Status = "Completed" THEN item.Status ELSE row.status,
         Duration |-> row.duration,
         StartDate |-> start_date_str,
         EndDate |-> strftime(end_date)]

updated_procedure(item, row) ==
    LET procedure_price ==
            IF row.procedure # item.Procedure
            THEN get(price_estimates, row.procedure, item.Cost)
            ELSE item.Cost
        start_date_str == strftime(row.start_date)
        end_date == plus_days(strptime(start_date_str), row.duration)
    IN  [Tooth |-> item.Tooth,
         Procedure |-> row.procedure,
         Cost |-> procedure_price,
         Status |-> row.status,
         Duration |-> row.duration,
         StartDate |-> start_date_str,
         EndDate |-> strftime(end_date)]

\* Faulty variant: every updated row is put in front of the list.
RECURSIVE updated_treatments_in_front(_, _, _, _)
updated_treatments_in_front(record, form, to_delete, i) ==
    IF i > Len(record) THEN <<>>
    ELSE IF i \in to_delete
         THEN updated_treatments_in_front(record, form, to_delete, i + 1)
         ELSE updated_treatments_in_front(record, form, to_delete, i + 1)
              \o <<updated_procedure(record[i], form[i])>>

\* the loop over enumerate(treatment_record), from row i on
RECURSIVE updated_treatments(_, _, _, _)
updated_treatments(record, form, to_delete, i) ==
    IF i > Len(record) THEN <<>>
    ELSE IF i \in to_delete
         THEN updated_treatments(record, form, to_delete, i + 1)
         ELSE <<updated_procedure(record[i], form[i])>>
              \o updated_treatments(record, form, to_delete, i + 1)

UpdateTreatmentManagement(form, ok) ==
    /\ PageRun
    /\ patient_status
    /\ treatment_record # <<>>
    /\ DOMAIN form = 1..Len(treatment_record)
    /\ \A i \in DOMAIN form : form[i].procedure \in Range(treatment_procedures)
    /\ \E to_delete \in {marked_for_deletion(form)} :
       \E updated \in {updated_treatments(treatment_record, form, to_delete, 1)} :
           /\ procedures_to_delete' = to_delete
           /\ treatment_record' = updated
           /\ patients' = modify_treatment(doctor_email, patient_selected.file_id,
                                           updated, ok)
    /\ wrote' = "treatment_plan"
    /\ button' = "update"
    /\ notice' = IF ok /\ selected_path \in DOMAIN patients
                 THEN "none" ELSE "db_error"
    /\ report' = NoReport
    /\ ChartSection(TRUE, selected_path, dental_chart, tooth_condition, charts,
                    NoSelection, ok)
    /\ UNCHANGED <<doctor_email, edit_patient, patient_status, patient_selected,
                   settings>>
    /\ CostSection(patient_status', treatment_record')

\* Faulty variant: the discount input has no lower bound.
DiscountWidgetUnbounded(inputs) == inputs

\* st.number_input("Discount Amount", min_value=0.0, ...): the values the
\* widget returns
DiscountWidgetValues(inputs) == {d \in inputs : d >= 0}

\* A change of the discount or of the VAT checkbox reruns the page.
ChangeCostInputs(discount, tax) ==
    /\ PageRun
    /\ patient_status
    /\ treatment_record # <<>>
    /\ discount \in DiscountWidgetValues({discount})
    /\ discount_amount' = discount
    /\ tax_apply' = tax
    /\ cost_summary' = compute_summary(treatment_record, discount, tax)
    /\ button' = "cost_inputs"
    /\ notice' = "none"
    /\ wrote' = "none"
    /\ procedures_to_delete' = {}
    /\ report' = NoReport
    /\ \E ok \in BOOLEAN :
           ChartSection(TRUE, selected_path, dental_chart, tooth_condition,
                        charts, NoSelection, ok)
    /\ UNCHANGED <<doctor_email, edit_patient, patient_status, patient_selected,
                   treatment_record, patients, settings>>

\* The "Cancel" button of the edit form.
CancelEditPatient ==
    /\ PageRun
    /\ patient_status
    /\ edit_patient
    /\ edit_patient' = FALSE
    /\ button' = "cancel_edit"
    /\ notice' = "none"
    /\ wrote' = "none"
    /\ procedures_to_delete' = {}
    /\ report' = NoReport
    /\ \E ok \in BOOLEAN :
           ChartSection(TRUE, selected_path, dental_chart, tooth_condition,
                        charts, NoSelection, ok)
    /\ UNCHANGED <<doctor_email, patient_status, patient_selected,
                   treatment_record, patients, settings>>
    /\ CostSection(patient_status', treatment_record')

(***************************************************************************)
(* Report: the "Generate Treatment Report" button and generate_pdf.        *)
(***************************************************************************)
\* Python values handed to generate_pdf: a number, None, or a string
number(n) == [type |-> "number", value |-> n]

None == [type |-> "NoneType"]

str(text) == [type |-> "str", value |-> text]

\* isinstance(value, (int, float))
is_number(value) == value.type = "number"

\* generate_pdf(doctor_name, patient_name, treatment_plan, currency_symbol,
\* discount, vat, total_cost, xray_images): the figures it works with, and the
\* final cost it writes.  Subtracting from or adding to a value that is no
\* number raises TypeError (lines 199-203).
generate_pdf(doctor_name, patient_name, treatment_plan, currency_symbol, discount, vat_amount, total_cost, xray_images) ==
    LET raises == \/ is_number(discount) /\ ~is_number(total_cost)
                  \/ is_number(vat_amount) /\ ~is_number(total_cost)
        final_cost == (total_cost.value
                       - (IF is_number(discount) THEN discount.value ELSE 0))
                      + (IF is_number(vat_amount) THEN vat_amount.value ELSE 0)
    IN  IF raises
        THEN [status |-> "TypeError", currency_symbol |-> currency_symbol,
              discount |-> discount, vat |-> vat_amount, total_cost |-> total_cost]
        ELSE [status |-> "generated", currency_symbol |-> currency_symbol,
              discount |-> discount, vat |-> vat_amount, total_cost |-> total_cost,
              final_cost |-> number(final_cost)]

\* The call of lines 539-547: seven positional arguments, so that the fourth
\* (discount_calculation) is bound to currency_symbol, the fifth to discount,
\* the sixth to vat and the seventh (image_path) to total_cost.
report_call(doctor_name, patient_name, record, discount_calculation, tax_calculation, total_price, image_path) ==
    generate_pdf(doctor_name, patient_name, record,
                 number(discount_calculation), number(tax_calculation),
                 number(total_price), image_path, None)

\* "Generate Treatment Report": `image_path` is None, or the path of the
\* uploaded X-ray image.
GenerateReport(image_path) ==
    /\ PageRun
    /\ patient_status
    /\ treatment_record # <<>>
    /\ LET summary == compute_summary(treatment_record, discount_amount, tax_apply)
       IN  report' = report_call("Doctor", patient_selected.name, treatment_record,
                                 summary.discount_calculation,
                                 summary.tax_calculation,
                                 summary.total_price, image_path)
    /\ notice' = IF report'.status = "generated"
                 THEN "report_generated" ELSE "report_error"
    /\ button' = "generate_report"
    /\ wrote' = "none"
    /\ procedures_to_delete' = {}
    /\ \E ok \in BOOLEAN :
           ChartSection(TRUE, selected_path, dental_chart, tooth_condition,
                        charts, NoSelection, ok)
    /\ UNCHANGED <<doctor_email, edit_patient, patient_status, patient_selected,
                   treatment_record, patients, settings>>
    /\ CostSection(patient_status', treatment_record')

(***************************************************************************)
(* Chart selection and the patient edit form.                              *)
(***************************************************************************)
\* The user picks a condition in the selectbox of one tooth: update_tooth puts
\* it in the session, and the page is run again.
SelectCondition(tooth_number, condition, ok) ==
    /\ PageRun
    /\ patient_status
    /\ tooth_number \in Range(teeth_rows)
    /\ condition \in Range(health_conditions)
    /\ ChartSection(TRUE, selected_path, dental_chart,
                    put(tooth_condition, tooth_number, condition), charts,
                    [t \in {tooth_number} |-> condition], ok)
    /\ button' = "select_condition"
    /\ notice' = "none"
    /\ wrote' = "none"
    /\ procedures_to_delete' = {}
    /\ report' = NoReport
    /\ UNCHANGED <<doctor_email, edit_patient, patient_status, patient_selected,
                   treatment_record, patients, settings>>
    /\ CostSection(patient_status', treatment_record')

\* "Edit Patient Record" opens the edit form.
EditPatientRecord ==
    /\ PageRun
    /\ patient_status
    /\ edit_patient' = TRUE
    /\ button' = "edit_patient"
    /\ notice' = "none"
    /\ wrote' = "none"
    /\ procedures_to_delete' = {}
    /\ report' = NoReport
    /\ \E ok \in BOOLEAN :
           ChartSection(TRUE, selected_path, dental_chart, tooth_condition,
                        charts, NoSelection, ok)
    /\ UNCHANGED <<doctor_email, patient_status, patient_selected,
                   treatment_record, patients, settings>>
    /\ CostSection(patient_status', treatment_record')

\* The "Save" button of the edit form.
SavePatientChanges(updated_name, updated_age, updated_gender, ok) ==
    /\ PageRun
    /\ patient_status
    /\ edit_patient
    /\ LET updated_info == [name |-> updated_name, age |-> updated_age,
                            gender |-> updated_gender]
           written == ok /\ selected_path \in DOMAIN patients
       IN  IF updated_name # "" /\ updated_age # 0
           THEN /\ patients' = modify_patient(doctor_email, patient_selected.file_id,
                                              updated_info, ok)
                /\ wrote' = "patient"
                /\ IF written
                   THEN /\ patient_selected' =
                               [patient_selected EXCEPT !.name = updated_name,
                                                        !.age = updated_age,
                                                        !.gender = updated_gender]
                        /\ edit_patient' = FALSE
                        /\ notice' = "patient_updated"
                   ELSE /\ notice' = "db_error"
                        /\ UNCHANGED <<patient_selected, edit_patient>>
           ELSE /\ notice' = "name_age_required"
                /\ wrote' = "none"
                /\ UNCHANGED <<patients, patient_selected, edit_patient>>
    /\ button' = "save_patient"
    /\ procedures_to_delete' = {}
    /\ report' = NoReport
    /\ ChartSection(TRUE, selected_path, dental_chart, tooth_condition, charts,
                    NoSelection, ok)
    /\ UNCHANGED <<doctor_email, patient_status, treatment_record, settings>>
    /\ CostSection(patient_status', treatment_record')

(***************************************************************************)
(* Settings page: the procedure list and the price table (show_treatments).*)
(***************************************************************************)
\* what a run of another page leaves alone of the Treatment page's session
treatment_page ==
    <<doctor_email, patient_status, patient_selected, treatment_record,
      procedures_to_delete, discount_amount, tax_apply, cost_summary, report,
      edit_patient, chart_session>>

\* save_settings: document("config").set(settings)
save_settings(saved, ok) ==
    IF ok THEN saved
    ELSE [procedures |-> treatment_procedures, prices |-> price_estimates]

\* the widgets of a row as rendered, before the user edits them
default_edit(procedures, prices, i) ==
    [name |-> procedures[i], price |-> get(prices, procedures[i], 0)]

\* The loop over enumerate(procedures), rows i..last: a row takes the name in
\* its text input, and its price is stored under the name the row had.
RECURSIVE edit_rows(_, _, _, _, _, _)
edit_rows(procedures, prices, original, edits, i, last) ==
    IF i > last THEN [procedures |-> procedures, prices |-> prices]
    ELSE LET procedure == original[i]
             price == get(prices, procedure, 0)
         IN  edit_rows([procedures EXCEPT ![i] = edits[i].name],
                       IF edits[i].price # price
                       THEN put(prices, procedure, edits[i].price)
                       ELSE prices,
                       original, edits, i + 1, last)

\* the "delete" button of row i
DeleteProcedure(i, edits, ok) ==
    /\ PageRun
    /\ i \in 1..Len(treatment_procedures)
    /\ DOMAIN edits = 1..Len(treatment_procedures)
    /\ LET edited == edit_rows(treatment_procedures, price_estimates,
                               treatment_procedures, edits, 1, i)
           saved == save_settings(
                        [procedures |-> pop(edited.procedures, i),
                         prices |-> drop(edited.prices, treatment_procedures[i])],
                        ok)
       IN  /\ treatment_procedures' = saved.procedures
           /\ price_estimates' = saved.prices
    /\ button' = "delete_procedure"
    /\ notice' = "procedure_removed"
    /\ wrote' = "settings"
    /\ UNCHANGED <<treatment_page, patients, charts, health_conditions>>

\* the "Save Procedure" button
SaveProcedure(name, new_price, edits, ok) ==
    /\ PageRun
    /\ DOMAIN edits = 1..Len(treatment_procedures)
    /\ new_price >= 0
    /\ \E edited \in {edit_rows(treatment_procedures, price_estimates,
                                 treatment_procedures, edits, 1,
                                 Len(treatment_procedures))} :
           IF name # ""
           THEN IF name \notin Range(edited.procedures)
                THEN LET saved == save_settings(
                                      [procedures |-> Append(edited.procedures, name),
                                       prices |-> put(edited.prices, name, new_price)],
                                      ok)
                     IN  /\ treatment_procedures' = saved.procedures
                         /\ price_estimates' = saved.prices
                         /\ notice' = "procedure_saved"
                         /\ wrote' = "settings"
                ELSE /\ notice' = "procedure_in_list"
                     /\ wrote' = "none"
                     /\ UNCHANGED settings
           ELSE /\ notice' = "name_required"
                /\ wrote' = "none"
                /\ UNCHANGED settings
    /\ button' = "save_procedure"
    /\ UNCHANGED <<treatment_page, patients, charts, health_conditions>>

(***************************************************************************)
(* Settings page: the health conditions (show_chart).  The text inputs of  *)
(* the rows are left as rendered.                                          *)
(***************************************************************************)
\* str.lower() over the condition names and the words of item names in use
lower(name) ==
    IF name = "Healthy" THEN "healthy"
    ELSE IF name = "Cavity" THEN "cavity"
    ELSE IF name = "Mask" THEN "mask"
    ELSE name

\* the delete button of row i; the first row has none
DeleteCondition(i, ok) ==
    /\ PageRun
    /\ i \in 2..Len(health_conditions)
    /\ health_conditions' = IF ok THEN pop(health_conditions, i) ELSE health_conditions
    /\ button' = "delete_condition"
    /\ notice' = "condition_removed"
    /\ wrote' = "settings"
    /\ UNCHANGED <<treatment_page, patients, charts, treatment_procedures,
                   price_estimates>>

\* the "Add Health Condition" button
AddCondition(new_condition, ok) ==
    /\ PageRun
    /\ IF new_condition # ""
       THEN IF lower(new_condition)
                   \notin {lower(health_conditions[i]) : i \in 1..Len(health_conditions)}
            THEN /\ health_conditions' = IF ok
                                         THEN Append(health_conditions, new_condition)
                                         ELSE health_conditions
                 /\ notice' = "condition_added"
                 /\ wrote' = "settings"
            ELSE /\ notice' = "condition_exists"
                 /\ wrote' = "none"
                 /\ UNCHANGED health_conditions
       ELSE /\ notice' = "condition_name_required"
            /\ wrote' = "none"
            /\ UNCHANGED health_conditions
    /\ button' = "add_condition"
    /\ UNCHANGED <<treatment_page, patients, charts, treatment_procedures,
                   price_estimates>>

(***************************************************************************)
(* Dashboard: sign-in and logout.                                          *)
(***************************************************************************)
DefaultPrice == 10000

\* the session state of a browser session nobody is signed in to
NoSession ==
    /\ doctor_email' = ""
    /\ patient_status' = FALSE
    /\ patient_selected' = NoPatient
    /\ treatment_record' = <<>>
    /\ procedures_to_delete' = {}
    /\ discount_amount' = 0
    /\ tax_apply' = FALSE
    /\ cost_summary' = NoInputsSummary(<<>>)
    /\ report' = NoReport
    /\ edit_patient' = FALSE
    /\ dental_chart' = <<>>
    /\ tooth_condition' = NoConditions
    /\ chart_changed' = FALSE
    /\ chart_notice' = "none"
    /\ tooth_selected' = NoTooth
    /\ email_alert_sent' = FALSE
    /\ enable_email_alerts' = FALSE
    /\ alert_email' = ""
    /\ matching_items' = {}
    /\ alert_notice' = "none"

\* "Logout": st.session_state.clear()
Logout ==
    /\ doctor_email # ""
    /\ NoSession
    /\ button' = "logout"
    /\ notice' = "none"
    /\ wrote' = "none"
    /\ page_access' = FALSE
    /\ UNCHANGED <<patients, charts, settings, stock, alert_emails, parked>>

\* "Log In" with the email and password of a doctor's account
sign_in(email) ==
    /\ doctor_email = ""
    /\ email # ""
    /\ doctor_email' = email
    /\ button' = "log_in"
    /\ notice' = "welcome"
    /\ wrote' = "none"
    /\ page_access' = FALSE
    /\ UNCHANGED <<patient_status, patient_selected, treatment_record,
                   procedures_to_delete, discount_amount, tax_apply, cost_summary,
                   report, edit_patient, chart_session, patients, charts, settings,
                   inventory_page, parked>>

(***************************************************************************)
(* Inventory page (src/app/pages/2_Inventory.py).  One action is one click *)
(* followed by the runs it causes: a handler that ends in st.rerun() is    *)
(* followed by a whole run of the page, the alerts tab included.           *)
(***************************************************************************)
\* st.slider("Days Until Expiry Warning", ..., value=30), left as rendered
DaysThreshold == 30

\* st.number_input("Low Stock Threshold", min_value=1, value=5), left as rendered
DefaultThreshold == 5

\* text.strip().lower(): a text is the sequence of its parts between "_"
item_name_of(text) == [i \in 1..Len(text) |-> lower(text[i])]

\* f"{item_name}_{expiry_string}": the parts of the name, then the date
item_id(item_name, expiry_string) == item_name \o <<expiry_string>>

\* item_id.split('_')[0] if '_' in item_id else item_id
base_name(id) == IF Len(id) > 1 THEN <<id[1]>> ELSE id

\* the document of an item: doctors/<email>/stock/<item id>
stock_path(email, id) == <<email, id>>

\* fetch_stock: {doc.id: doc.to_dict()} of the doctor's stock collection
fetch_stock(store, email) ==
    [id \in {k[2] : k \in {j \in DOMAIN store : j[1] = email}} |->
         store[stock_path(email, id)]]

stock_item(quantity, expiry_string, low_threshold, category, location) ==
    [quantity |-> quantity, expiry_date |-> expiry_string,
     low_threshold |-> low_threshold, category |-> category,
     location |-> location]

\* store_stock: False when the document exists, else the document is set
store_stock(store, email, id, details) ==
    IF stock_path(email, id) \in DOMAIN store
    THEN [success |-> FALSE, store |-> store]
    ELSE [success |-> TRUE, store |-> put(store, stock_path(email, id), details)]

\* lines 440-457: the items that expire within the threshold, expired ones too
expiry_items(inventory_data, today, days_threshold) ==
    {id \in DOMAIN inventory_data :
         strptime(inventory_data[id].expiry_date) - today <= days_threshold}

\* Faulty variant: an alert is sent in every run with expiring items.
send_every_run(items, enabled, sent) == items # {} /\ enabled

\* line 460: the condition of the automatic alert
alert_due(items, enabled, sent) == items # {} /\ enabled /\ ~sent

\* "@" in alert_email, for the addresses that are typed
has_at(address) == address \in {"lab@clinic", "dr.a@clinic", "dr.b@clinic"}

\* Alert Settings (lines 493-565), rendered after the automatic alert.
\* `step` is what the user did there: "enable" or "disable" the checkbox,
\* "update_email" with the typed address, or "none"; `ok` is whether the
\* store call returns without raising; `sent` is the flag at this point.
AlertSettings(step, typed, ok, enabled, address, sent) ==
    CASE step = "enable" ->
             /\ ~enabled
             /\ enable_email_alerts' = TRUE
             /\ alert_email' = IF address = "" THEN doctor_email ELSE address
             /\ alert_emails' = IF ok THEN put(alert_emails, doctor_email, alert_email')
                                ELSE alert_emails
             /\ email_alert_sent' = FALSE
      [] step = "disable" ->
             /\ enabled
             /\ enable_email_alerts' = FALSE
             /\ alert_email' = address
             /\ alert_emails' = IF ok THEN drop(alert_emails, doctor_email)
                                ELSE alert_emails
             /\ email_alert_sent' = sent
      [] step = "update_email" ->
             /\ enabled
             /\ enable_email_alerts' = TRUE
             /\ IF ~has_at(typed)
                THEN /\ alert_email' = address
                     /\ email_alert_sent' = sent
                     /\ UNCHANGED alert_emails
                ELSE /\ alert_email' = typed
                     /\ alert_emails' = IF ok THEN put(alert_emails, doctor_email, typed)
                                        ELSE alert_emails
                     /\ email_alert_sent' = IF ok THEN FALSE ELSE sent
      [] OTHER ->
             /\ step = "none"
             /\ enable_email_alerts' = enabled
             /\ alert_email' = address
             /\ email_alert_sent' = sent
             /\ UNCHANGED alert_emails

\* display_alerts (lines 361-565) of the run that ends the action.  `store`
\* is the stock and `sent` the email_alert_sent flag the handlers of the
\* inventory tab left behind; `delivered` is whether send_alert reports
\* success.  A stored alert_email switches the alerts on (lines 369-372);
\* without inventory items the tab returns before anything else (383-385).
AlertsSection(store, sent, today, step, typed, ok, delivered) ==
    \E inventory_data \in {fetch_stock(store, doctor_email)} :
    LET stored == get(alert_emails, doctor_email, "")
        enabled == stored # "" \/ enable_email_alerts
        address == IF stored # "" THEN stored ELSE alert_email
        items == expiry_items(inventory_data, today, DaysThreshold)
        attempt == alert_due(items, enabled, sent) /\ address # ""
        sent_after == IF items = {} THEN FALSE
                      ELSE IF attempt /\ delivered THEN TRUE
                      ELSE sent
    IN  IF DOMAIN inventory_data = {}
        THEN /\ step = "none"
             /\ alert_notice' = "none"
             /\ enable_email_alerts' = enabled
             /\ alert_email' = address
             /\ email_alert_sent' = sent
             /\ UNCHANGED alert_emails
        ELSE /\ alert_notice' = IF ~attempt THEN "none"
                                ELSE IF delivered THEN "sent" ELSE "failed"
             /\ AlertSettings(step, typed, ok, enabled, address, sent_after)

\* what every run of the Inventory page past its authentication check
\* (lines 266-268) leaves alone
InventoryRun ==
    /\ authenticated(doctor_email)
    /\ page_access' = TRUE
    /\ wrote' = "none"
    /\ UNCHANGED <<treatment_page, patients, charts, settings, parked>>

\* a run of the page without a click in the inventory tab: the page is
\* opened, or a widget of the alert settings is used
VisitInventory(today, step, typed, ok, delivered) ==
    /\ InventoryRun
    /\ button' = IF step = "none" THEN "visit_inventory" ELSE step
    /\ notice' = "none"
    /\ UNCHANGED <<stock, matching_items>>
    /\ AlertsSection(stock, email_alert_sent, today, step, typed, ok, delivered)

\* "Add Item" (add_items, lines 906-928)
AddItem(text, item_quantity, expiry_date, category, today, delivered) ==
    /\ InventoryRun
    /\ item_quantity >= 1
    /\ expiry_date >= today
    /\ button' = "add_item"
    /\ UNCHANGED matching_items
    /\ LET item_name == item_name_of(text)
           expiry_string == strftime(expiry_date)
           id == item_id(item_name, expiry_string)
           result == store_stock(stock, doctor_email, id,
                                 stock_item(item_quantity, expiry_string,
                                            DefaultThreshold, category, ""))
       IN  IF item_name = <<>>
           THEN /\ notice' = "entry_error"
                /\ UNCHANGED stock
                /\ AlertsSection(stock, email_alert_sent, today, "none", "", TRUE,
                                 delivered)
           ELSE IF id \in DOMAIN fetch_stock(stock, doctor_email) \/ ~result.success
           THEN /\ notice' = "item_exists"
                /\ UNCHANGED stock
                /\ AlertsSection(stock, email_alert_sent, today, "none", "", TRUE,
                                 delivered)
           ELSE /\ notice' = "item_added"
                /\ stock' = result.store
                /\ AlertsSection(result.store, FALSE, today, "none", "", TRUE,
                                 delivered)

\* a cell of the "Expiry Date" column as pandas read it
timestamp(date) == [type |-> "Timestamp", value |-> date]

\* One row of import_inventory's loop (lines 82-124): the stock and the two
\* counters after the row.  A string cell is parsed with "%B %d, %Y"; the
\* strings of the explored files are not of that form.
import_row(state, email, row) ==
    LET item_name == item_name_of(row.Item)
        failed == [state EXCEPT !.error_count = @ + 1]
    IN  IF row.ExpiryDate.type = "str" THEN failed
        ELSE IF row.LowThreshold < 1 THEN failed
        ELSE LET expiry_date == strftime(row.ExpiryDate.value)
                 result == store_stock(state.store, email,
                                       item_id(item_name, expiry_date),
                                       stock_item(row.Quantity, expiry_date,
                                                  row.LowThreshold, "", ""))
             IN  IF result.success
                 THEN [state EXCEPT !.store = result.store, !.success_count = @ + 1]
                 ELSE failed

RECURSIVE import_rows(_, _, _, _)
import_rows(state, email, rows, i) ==
    IF i > Len(rows) THEN state
    ELSE import_rows(import_row(state, email, rows[i]), email, rows, i + 1)

\* import_inventory: the stock after the file and whether it reports success
import_inventory(store, email, rows) ==
    LET done == import_rows([store |-> store, success_count |-> 0,
                             error_count |-> 0], email, rows, 1)
    IN  [success |-> done.error_count = 0 \/ done.success_count > 0,
         store |-> done.store]

\* "Import Data" with an uploaded file (lines 348-358)
ImportItems(rows, today, delivered) ==
    /\ InventoryRun
    /\ button' = "import_items"
    /\ UNCHANGED matching_items
    /\ \E result \in {import_inventory(stock, doctor_email, rows)} :
           /\ stock' = result.store
           /\ notice' = IF result.success THEN "imported" ELSE "import_error"
           /\ AlertsSection(result.store,
                            IF result.success THEN FALSE ELSE email_alert_sent,
                            today, "none", "", TRUE, delivered)

\* search_term in name_part, for the terms that are typed
contains(name_part, search_term) ==
    \/ search_term = name_part
    \/ <<search_term, name_part>> \in {<<"ma", "mask">>}

\* "Find Item" (edit_inventory, lines 940-967): the items whose base name
\* contains the term; edit_search_mode is on while matching_items is kept
FindItem(search_term, today, delivered) ==
    /\ InventoryRun
    /\ search_term # ""
    /\ button' = "find_item"
    /\ LET inventory_data == fetch_stock(stock, doctor_email)
           found == {id \in DOMAIN inventory_data :
                         contains(base_name(id)[1], search_term)}
       IN  /\ matching_items' = found
           /\ notice' = IF found = {} THEN "item_not_found" ELSE "editing"
    /\ UNCHANGED stock
    /\ AlertsSection(stock, email_alert_sent, today, "none", "", TRUE, delivered)

\* "Save Changes" on the item chosen among the matching ones
\* (handle_item_editing, lines 1074-1124)
SaveItem(edit_item, new_quantity, new_expiry, today, delivered) ==
    /\ InventoryRun
    /\ edit_item \in matching_items
    /\ edit_item \in DOMAIN fetch_stock(stock, doctor_email)
    /\ new_quantity >= 0
    /\ new_expiry >= today
    /\ button' = "save_item"
    /\ LET inventory_data == fetch_stock(stock, doctor_email)
           item_details == inventory_data[edit_item]
           expiry_string == strftime(new_expiry)
           new_item_id == item_id(base_name(edit_item), expiry_string)
           details == stock_item(new_quantity, expiry_string,
                                 item_details.low_threshold,
                                 item_details.category, item_details.location)
           saved == drop(put(stock, stock_path(doctor_email, new_item_id), details),
                         stock_path(doctor_email, edit_item))
           updated == put(stock, stock_path(doctor_email, edit_item), details)
       IN  IF new_item_id # edit_item
           THEN IF new_item_id \in DOMAIN inventory_data
                THEN /\ notice' = "cannot_update"
                     /\ UNCHANGED <<stock, matching_items>>
                     /\ AlertsSection(stock, email_alert_sent, today, "none", "",
                                      TRUE, delivered)
                ELSE /\ notice' = "item_updated_new_expiry"
                     /\ stock' = saved
                     /\ matching_items' = {}
                     /\ AlertsSection(saved, FALSE, today, "none", "", TRUE,
                                      delivered)
           ELSE /\ notice' = "item_updated"
                /\ stock' = updated
                /\ matching_items' = {}
                /\ AlertsSection(updated, FALSE, today, "none", "", TRUE, delivered)

\* "Delete Item" on the item chosen among the matching ones (lines 1127-1143)
DeleteItem(edit_item, today, delivered) ==
    /\ InventoryRun
    /\ edit_item \in matching_items
    /\ edit_item \in DOMAIN fetch_stock(stock, doctor_email)
    /\ button' = "delete_item"
    /\ notice' = "item_removed"
    /\ matching_items' = {}
    /\ \E left \in {drop(stock, stock_path(doctor_email, edit_item))} :
           /\ stock' = left
           /\ AlertsSection(left, FALSE, today, "none", "", TRUE, delivered)

\* A page opened in a session nobody is signed in to: the authentication
\* check shows an error and the run ends (1_Treatment.py:93-95,
\* 2_Inventory.py:266-268, 5_Settings.py:15-17).
VisitLoggedOut(page) ==
    /\ ~authenticated(doctor_email)
    /\ button' = page
    /\ notice' = "auth_required"
    /\ wrote' = "none"
    /\ page_access' = FALSE
    /\ UNCHANGED <<treatment_page, patients, charts, settings, inventory_page, parked>>

(***************************************************************************)
(* A second browser session (another tab) on the same store.  `parked`     *)
(* holds the session state of the tab whose runs are not being followed;   *)
(* SwitchSession turns to that tab.  Each tab has its own st.session_state.*)
(***************************************************************************)
\* the session state of the tab that is being followed
this_session ==
    [doctor_email |-> doctor_email, patient_status |-> patient_status,
     patient_selected |-> patient_selected, treatment_record |-> treatment_record,
     procedures_to_delete |-> procedures_to_delete, notice |-> notice,
     wrote |-> wrote, discount_amount |-> discount_amount,
     tax_apply |-> tax_apply, cost_summary |-> cost_summary, report |-> report,
     edit_patient |-> edit_patient, dental_chart |-> dental_chart,
     tooth_condition |-> tooth_condition, chart_changed |-> chart_changed,
     chart_notice |-> chart_notice, tooth_selected |-> tooth_selected,
     email_alert_sent |-> email_alert_sent,
     enable_email_alerts |-> enable_email_alerts, alert_email |-> alert_email,
     matching_items |-> matching_items, alert_notice |-> alert_notice,
     page_access |-> page_access]

\* the session state of a tab right after a doctor signed in
SignedIn(email) ==
    [doctor_email |-> email, patient_status |-> FALSE,
     patient_selected |-> NoPatient, treatment_record |-> <<>>,
     procedures_to_delete |-> {}, notice |-> "none", wrote |-> "none",
     discount_amount |-> 0, tax_apply |-> FALSE,
     cost_summary |-> NoInputsSummary(<<>>), report |-> NoReport,
     edit_patient |-> FALSE, dental_chart |-> <<>>,
     tooth_condition |-> NoConditions, chart_changed |-> FALSE,
     chart_notice |-> "none", tooth_selected |-> NoTooth,
     email_alert_sent |-> FALSE, enable_email_alerts |-> FALSE,
     alert_email |-> "", matching_items |-> {}, alert_notice |-> "none",
     page_access |-> FALSE]

\* the user turns to the other tab; no script runs
SwitchSession ==
    /\ parked' = this_session
    /\ doctor_email' = parked.doctor_email
    /\ patient_status' = parked.patient_status
    /\ patient_selected' = parked.patient_selected
    /\ treatment_record' = parked.treatment_record
    /\ procedures_to_delete' = parked.procedures_to_delete
    /\ notice' = parked.notice
    /\ wrote' = parked.wrote
    /\ discount_amount' = parked.discount_amount
    /\ tax_apply' = parked.tax_apply
    /\ cost_summary' = parked.cost_summary
    /\ report' = parked.report
    /\ edit_patient' = parked.edit_patient
    /\ dental_chart' = parked.dental_chart
    /\ tooth_condition' = parked.tooth_condition
    /\ chart_changed' = parked.chart_changed
    /\ chart_notice' = parked.chart_notice
    /\ tooth_selected' = parked.tooth_selected
    /\ email_alert_sent' = parked.email_alert_sent
    /\ enable_email_alerts' = parked.enable_email_alerts
    /\ alert_email' = parked.alert_email
    /\ matching_items' = parked.matching_items
    /\ alert_notice' = parked.alert_notice
    /\ page_access' = parked.page_access
    /\ button' = "switch_session"
    /\ UNCHANGED <<patients, charts, settings, stock, alert_emails>>

(***************************************************************************)
(* Initial state: a session a doctor has signed in to, an empty patient    *)
(* collection and the default settings document.                           *)
(***************************************************************************)
Doctors == {"dr.a@clinic", "dr.b@clinic"}

Init ==
    /\ doctor_email = "dr.a@clinic"
    /\ patient_status = FALSE
    /\ patient_selected = NoPatient
    /\ treatment_record = <<>>
    /\ procedures_to_delete = {}
    /\ button = "none"
    /\ notice = "none"
    /\ wrote = "none"
    /\ discount_amount = 0
    /\ tax_apply = FALSE
    /\ cost_summary = NoInputsSummary(<<>>)
    /\ report = NoReport
    /\ edit_patient = FALSE
    /\ dental_chart = <<>>
    /\ tooth_condition = NoConditions
    /\ chart_changed = FALSE
    /\ chart_notice = "none"
    /\ tooth_selected = NoTooth
    /\ email_alert_sent = FALSE
    /\ enable_email_alerts = FALSE
    /\ alert_email = ""
    /\ matching_items = {}
    /\ alert_notice = "none"
    /\ page_access = FALSE
    /\ parked = SignedIn("dr.a@clinic")
    /\ patients = <<>>
    /\ charts = <<>>
    /\ treatment_procedures = <<"Cleaning">>
    /\ price_estimates = [p \in {"Cleaning"} |-> DefaultPrice]
    /\ health_conditions = <<"Healthy">>
    /\ stock = <<>>
    /\ alert_emails = <<>>

(***************************************************************************)
(* The inputs a user can give.                                             *)
(***************************************************************************)
IsInjective(seq) == \A i, j \in DOMAIN seq : seq[i] = seq[j] => i = j

\* the settings rows as rendered, with no row edited
UntouchedRows ==
    [i \in 1..Len(treatment_procedures) |->
         default_edit(treatment_procedures, price_estimates, i)]

\* The edits of the settings rows: at most one row is edited in a run, and
\* the edited list keeps its names distinct.
RowEdits ==
    {UntouchedRows} \cup
    UNION {{[UntouchedRows EXCEPT ![i] = [name |-> n, price |-> p]] :
                n \in {m \in ProcedureNames :
                           m \notin Range(treatment_procedures)
                                        \ {treatment_procedures[i]}},
                p \in PriceInputs} :
           i \in 1..Len(treatment_procedures)}

\* The submitted forms of the management table over the given widget values.
Forms(statuses, start_dates, durations) ==
    [1..Len(treatment_record) ->
         FormRows(Range(treatment_procedures), statuses, start_dates, durations,
                  {"keep", "delete"})]

Registration ==
    \E n \in Names, a \in Ages, f \in FileIds \cup {""} :
        RegisterPatient(n, a, "Female", f, TRUE, TRUE, TRUE)

Search == \E f \in FileIds : SearchPatient(f, TRUE, TRUE)

SettingsDelete ==
    \E i \in 1..Len(treatment_procedures), edits \in RowEdits :
        /\ Len(treatment_procedures) > 1
        /\ DeleteProcedure(i, edits, TRUE)

SettingsSave ==
    \E n \in ProcedureNames, p \in PriceInputs, edits \in RowEdits :
        SaveProcedure(n, p, edits, TRUE)

(***************************************************************************)
(* Spec: the ledger's rows over two teeth and the configured procedures,   *)
(* with the schedule and the status of every row left as rendered and new  *)
(* procedures added to the settings.                                       *)
(***************************************************************************)
Add == \E t \in Teeth, p \in ProcedureNames, d \in Todays : AddProcedure(t, p, d, TRUE)

\* the forms whose status, start date and duration widgets are left alone
LedgerForms == Forms({"Pending"}, Todays, {DefaultDuration})

Update == \E form \in LedgerForms : UpdateTreatmentManagement(form, TRUE)

SettingsSaveNew ==
    \E n \in ProcedureNames, p \in PriceInputs : SaveProcedure(n, p, UntouchedRows, TRUE)

SettingsDeleteRow ==
    \E i \in 1..Len(treatment_procedures) :
        /\ Len(treatment_procedures) > 1
        /\ DeleteProcedure(i, UntouchedRows, TRUE)

Next ==
    \/ Registration
    \/ Search
    \/ ClearPatient
    \/ Add
    \/ Update
    \/ SettingsSaveNew
    \/ SettingsDeleteRow

Spec == Init /\ [][Next]_vars

(***************************************************************************)
(* SpecPrices: the costs of the rows of one tooth while the Settings page  *)
(* renames, reprices, removes and adds procedures.                         *)
(***************************************************************************)
AddOnOneTooth ==
    \E p \in ProcedureNames, d \in Todays : AddProcedure("11", p, d, TRUE)

NextPrices ==
    \/ Registration
    \/ Search
    \/ ClearPatient
    \/ AddOnOneTooth
    \/ Update
    \/ SettingsDelete
    \/ SettingsSave

SpecPrices == Init /\ [][NextPrices]_vars

(***************************************************************************)
(* SpecSchedule: the schedule and the status of the rows; the settings     *)
(* stay as they are.                                                       *)
(***************************************************************************)
AddOnAnyDay ==
    \E t \in Teeth, p \in ProcedureNames, d \in StartDateInputs :
        AddProcedure(t, p, d, TRUE)

UpdateSchedule ==
    \E form \in Forms(Range(StatusOptions), StartDateInputs, DurationInputs) :
        UpdateTreatmentManagement(form, TRUE)

NextSchedule ==
    \/ Registration
    \/ Search
    \/ ClearPatient
    \/ AddOnAnyDay
    \/ UpdateSchedule

SpecSchedule == Init /\ [][NextSchedule]_vars

(***************************************************************************)
(* SpecCost: the cost summary over the ledgers the session builds, with    *)
(* the discount and VAT inputs.                                            *)
(***************************************************************************)
CostInputs ==
    \E discount \in DiscountInputs, tax \in BOOLEAN : ChangeCostInputs(discount, tax)

NextCost ==
    \/ Registration
    \/ ClearPatient
    \/ Add
    \/ Update
    \/ SettingsSave
    \/ CostInputs

SpecCost == Init /\ [][NextCost]_vars

(***************************************************************************)
(* SpecReport: the report button over ledgers built by Add Procedure, with *)
(* the discount and VAT inputs and changing prices.                        *)
(***************************************************************************)
\* image_path: no upload, or the file the uploaded X-ray was saved to
ImagePaths == {None, str("xray_Ann.png")}

Report == \E image_path \in ImagePaths : GenerateReport(image_path)

NextReport ==
    \/ Registration
    \/ ClearPatient
    \/ Add
    \/ SettingsSave
    \/ CostInputs
    \/ Report

SpecReport == Init /\ [][NextReport]_vars

(***************************************************************************)
(* SpecChart: the charts of two patients while the Settings page adds and  *)
(* removes health conditions; a chart write may fail.                      *)
(***************************************************************************)
ChartFileIds == {"F1", "F2"}
ConditionInputs == {"Cavity", "healthy", ""}

RegistrationChart ==
    \E n \in Names, a \in Ages, f \in ChartFileIds :
        RegisterPatient(n, a, "Female", f, TRUE, TRUE, TRUE)

SearchChart == \E f \in ChartFileIds : SearchPatient(f, TRUE, TRUE)

Select ==
    \E t \in Teeth, c \in Range(health_conditions), ok \in BOOLEAN :
        SelectCondition(t, c, ok)

ConditionAdd == \E c \in ConditionInputs : AddCondition(c, TRUE)

ConditionDelete == \E i \in 1..Len(health_conditions) : DeleteCondition(i, TRUE)

NextChart ==
    \/ RegistrationChart
    \/ SearchChart
    \/ ClearPatient
    \/ Select
    \/ ConditionAdd
    \/ ConditionDelete

SpecChart == Init /\ [][NextChart]_vars

(***************************************************************************)
(* SpecStore: the handlers that write to the store, with store calls that  *)
(* may raise.                                                              *)
(***************************************************************************)
EditNames == {"Ann", "Bea", ""}

RegistrationStore ==
    \E n \in Names, a \in Ages, f \in FileIds, ok \in BOOLEAN, chart_ok \in BOOLEAN :
        RegisterPatient(n, a, "Female", f, TRUE, ok, chart_ok)

SearchStore == \E f \in FileIds, ok \in BOOLEAN : SearchPatient(f, TRUE, ok)

AddStore ==
    \E t \in Teeth, p \in ProcedureNames, d \in Todays, ok \in BOOLEAN :
        AddProcedure(t, p, d, ok)

UpdateStore ==
    \E form \in LedgerForms, ok \in BOOLEAN : UpdateTreatmentManagement(form, ok)

SavePatient ==
    \E n \in EditNames, a \in Ages, ok \in BOOLEAN :
        SavePatientChanges(n, a, "Female", ok)

NextStore ==
    \/ RegistrationStore
    \/ SearchStore
    \/ ClearPatient
    \/ AddStore
    \/ UpdateStore
    \/ EditPatientRecord
    \/ SavePatient
    \/ CancelEditPatient

SpecStore == Init /\ [][NextStore]_vars

(***************************************************************************)
(* SpecDoctors: two doctors sign in to the session in turn and register    *)
(* patients; a read of the store may raise.  No Settings handler runs      *)
(* here, so both doctors hold the default settings of load_settings.       *)
(***************************************************************************)
DoctorNames == {"Ann", "Bea"}

RegistrationDoctors ==
    \E n \in DoctorNames, a \in Ages, f \in FileIds \cup {""}, fetched \in BOOLEAN :
        RegisterPatient(n, a, "Female", f, fetched, TRUE, TRUE)

SearchDoctors ==
    \E f \in FileIds, fetched \in BOOLEAN : SearchPatient(f, fetched, TRUE)

SignIn == \E email \in Doctors : sign_in(email)

NextDoctors ==
    \/ RegistrationDoctors
    \/ SearchDoctors
    \/ ClearPatient
    \/ AddOnOneTooth
    \/ Logout
    \/ SignIn

SpecDoctors == Init /\ [][NextDoctors]_vars

(***************************************************************************)
(* SpecFrame: the ledgers and the charts of two patients: procedures on    *)
(* one tooth and conditions on both teeth, with store calls that may raise *)
(* when a condition is selected.                                           *)
(***************************************************************************)
NextFrame ==
    \/ RegistrationChart
    \/ SearchChart
    \/ Select
    \/ ConditionAdd
    \/ AddOnOneTooth
    \/ Update

SpecFrame == Init /\ [][NextFrame]_vars

(***************************************************************************)
(* SpecSessions: two browser sessions of one doctor work on the same       *)
(* patients in turn; every store call returns.                             *)
(***************************************************************************)
NextSessions ==
    \/ Registration
    \/ Search
    \/ Add
    \/ Update
    \/ SwitchSession

SpecSessions == Init /\ [][NextSessions]_vars

(***************************************************************************)
(* SpecInventory: the stock of one doctor: items are added, imported,      *)
(* found, edited and deleted.  The alerts stay switched off.               *)
(***************************************************************************)
\* Item names as typed, part by part between "_".
ItemTexts == {<<"Mask">>, <<"mask", "n95">>, <<>>}
\* 2024-03-09 is within the warning period of 2024-02-28, 2024-12-31 is not.
ExpiryInputs == {68, 365}
SearchTerms == {"ma", "n95"}

import_line(text, quantity, cell) ==
    [Item |-> text, Quantity |-> quantity, ExpiryDate |-> cell, LowThreshold |-> 5]

\* The uploaded files: one item; the same item twice; a date pandas left as
\* a string.
ImportFile(n) ==
    CASE n = 1 -> <<import_line(<<"Mask">>, 1, timestamp(365))>>
      [] n = 2 -> <<import_line(<<"mask", "n95">>, 1, timestamp(68)),
                    import_line(<<"mask", "n95">>, 10, timestamp(68))>>
      [] OTHER -> <<import_line(<<"Mask">>, 1, str("2024-03-09"))>>

InventoryAdd ==
    \E text \in ItemTexts, e \in ExpiryInputs, d \in Todays :
        AddItem(text, 10, e, "Surgical", d, TRUE)

InventoryImport == \E n \in 1..3, d \in Todays : ImportItems(ImportFile(n), d, TRUE)

InventoryFind == \E term \in SearchTerms, d \in Todays : FindItem(term, d, TRUE)

InventorySave ==
    \E id \in matching_items, e \in ExpiryInputs, d \in Todays : SaveItem(id, 0, e, d, TRUE)

InventoryDelete == \E id \in matching_items, d \in Todays : DeleteItem(id, d, TRUE)

NextInventory ==
    \/ InventoryAdd
    \/ InventoryImport
    \/ InventoryFind
    \/ InventorySave
    \/ InventoryDelete

SpecInventory == Init /\ [][NextInventory]_vars

(***************************************************************************)
(* SpecAlerts: the automatic expiry alert over the items of one name: the  *)
(* alerts are switched on and off, their address is changed, and sending   *)
(* an alert may fail.                                                      *)
(***************************************************************************)
AlertAddresses == {"lab@clinic", "nobody"}

Visit == \E d \in Todays, delivered \in BOOLEAN : VisitInventory(d, "none", "", TRUE, delivered)

EnableAlerts == \E d \in Todays, ok \in BOOLEAN : VisitInventory(d, "enable", "", ok, TRUE)

DisableAlerts ==
    \E d \in Todays, ok \in BOOLEAN, delivered \in BOOLEAN :
        VisitInventory(d, "disable", "", ok, delivered)

UpdateEmail ==
    \E d \in Todays, typed \in AlertAddresses, ok \in BOOLEAN, delivered \in BOOLEAN :
        VisitInventory(d, "update_email", typed, ok, delivered)

AlertsAdd ==
    \E e \in ExpiryInputs, d \in Todays, delivered \in BOOLEAN :
        AddItem(<<"Mask">>, 10, e, "Surgical", d, delivered)

AlertsImport ==
    \E n \in {1, 3}, d \in Todays, delivered \in BOOLEAN :
        ImportItems(ImportFile(n), d, delivered)

AlertsFind == \E d \in Todays, delivered \in BOOLEAN : FindItem("ma", d, delivered)

AlertsSave ==
    \E id \in matching_items, e \in ExpiryInputs, d \in Todays, delivered \in BOOLEAN :
        SaveItem(id, 0, e, d, delivered)

AlertsDelete ==
    \E id \in matching_items, d \in Todays, delivered \in BOOLEAN :
        DeleteItem(id, d, delivered)

NextAlerts ==
    \/ Visit
    \/ EnableAlerts
    \/ DisableAlerts
    \/ UpdateEmail
    \/ AlertsAdd
    \/ AlertsImport
    \/ AlertsFind
    \/ AlertsSave
    \/ AlertsDelete

SpecAlerts == Init /\ [][NextAlerts]_vars

(***************************************************************************)
(* SpecAccess: doctors sign in and out of the session, and the Treatment,  *)
(* the Inventory and the Settings page are opened signed in or not.        *)
(***************************************************************************)
Pages == {"1_Treatment", "2_Inventory", "5_Settings"}

VisitWithoutDoctor == \E page \in Pages : VisitLoggedOut(page)

RegistrationAccess ==
    \E n \in Names, a \in Ages, f \in FileIds :
        RegisterPatient(n, a, "Female", f, TRUE, TRUE, TRUE)

StockAccess ==
    \E e \in ExpiryInputs, d \in Todays : AddItem(<<"Mask">>, 10, e, "Surgical", d, TRUE)

SettingsAccess == AddCondition("Cavity", TRUE)

NextAccess ==
    \/ SignIn
    \/ Logout
    \/ VisitWithoutDoctor
    \/ RegistrationAccess
    \/ StockAccess
    \/ SettingsAccess

SpecAccess == Init /\ [][NextAccess]_vars

(***************************************************************************)
(* Properties.                                                             *)
(***************************************************************************)
\* the (Tooth, Procedure) pair of every row, in order
pairs(record) == [i \in 1..Len(record) |-> <<record[i].Tooth, record[i].Procedure>>]

\* the file ids under which the store holds a patient
stored_ids == DOMAIN patients


\* C1: no two entries of the in-memory ledger, and no two entries of a
\* persisted treatment_plan, have the same (Tooth, Procedure) pair.
C1_UniquePairs ==
    /\ IsInjective(pairs(treatment_record))
    /\ \A f \in stored_ids : IsInjective(pairs(patients[f].treatment_plan))

\* C2: an Add Procedure whose (tooth, procedure) pair is already in the ledger
\* is rejected with an error, leaves the ledger exactly as it was and writes
\* nothing to the store.
C2_DuplicateAddRejected ==
    [][\A t \in Teeth, p \in ProcedureNames, d \in Todays, ok \in BOOLEAN :
           (/\ button' = "add"
            /\ <<t, p>> \in Range(pairs(treatment_record))
            /\ AddProcedure(t, p, d, ok))
           => /\ notice' = "procedure_exists"
              /\ treatment_record' = treatment_record
              /\ patients' = patients
              /\ wrote' = "none"]_vars

\* C2 witness: a run rejected a duplicate pair on a ledger that holds entries.
C2_Witness ==
    /\ button = "add"
    /\ notice = "procedure_exists"
    /\ Len(treatment_record) >= 1
    /\ wrote = "none"

\* the pairs the submitted form leaves in the list
kept_pairs(form) ==
    [i \in {j \in DOMAIN form : form[j].action = "keep"} |->
         <<treatment_record[i].Tooth, form[i].procedure>>]

form_collides(form) ==
    \E i, j \in DOMAIN kept_pairs(form) : i # j /\ kept_pairs(form)[i] = kept_pairs(form)[j]

\* C3: a management update whose resulting list would hold the same
\* (tooth, procedure) pair twice fails with a duplicate-procedure error and
\* changes neither the in-memory ledger nor the persisted treatment_plan.
C3_CollidingUpdateRejected ==
    [][\A form \in LedgerForms, ok \in {TRUE} :
           (/\ button' = "update"
            /\ form_collides(form)
            /\ UpdateTreatmentManagement(form, ok))
           => /\ notice' = "procedure_exists"
              /\ treatment_record' = treatment_record
              /\ patients' = patients]_vars

\* every entry the session or the store holds
all_entries ==
    Range(treatment_record)
        \cup UNION {Range(patients[f].treatment_plan) : f \in stored_ids}

\* C4: every entry satisfies End Date = Start Date + Duration (in days), in
\* the ledger and in the persisted plan, after an add and after any update.
C4_EndDateIsStartPlusDuration ==
    \A e \in all_entries : strptime(e.EndDate) = strptime(e.StartDate) + e.Duration

\* C4 witness: an update gave an entry a start date and a duration of its own,
\* and its end date lies in the next year.
C4_Witness ==
    /\ button = "update"
    /\ \E e \in Range(treatment_record) :
           /\ e.Duration # DefaultDuration
           /\ e.StartDate = <<2024, 12, 31>>
           /\ e.EndDate[1] = 2025

\* C5: an Add Procedure whose pair is not in the ledger appends exactly one
\* entry at the end, with the selected tooth and procedure and with status
\* Pending; the entries before it stay as they were, in the same order.
C5_AddAppendsPendingEntry ==
    [][\A t \in Teeth, p \in ProcedureNames, d \in StartDateInputs, ok \in BOOLEAN :
           (/\ button' = "add"
            /\ <<t, p>> \notin Range(pairs(treatment_record))
            /\ AddProcedure(t, p, d, ok))
           => /\ Len(treatment_record') = Len(treatment_record) + 1
              /\ SubSeq(treatment_record', 1, Len(treatment_record)) = treatment_record
              /\ treatment_record'[Len(treatment_record')].Tooth = t
              /\ treatment_record'[Len(treatment_record')].Procedure = p
              /\ treatment_record'[Len(treatment_record')].Status = "Pending"]_vars

\* C5 witness: an add appended a Pending entry behind an entry an earlier
\* update had completed.
C5_Witness ==
    /\ button = "add"
    /\ notice = "procedure_added"
    /\ Len(treatment_record) = 2
    /\ treatment_record[1].Status = "Completed"
    /\ treatment_record[2].Status = "Pending"

\* the rows the last update kept, and the place of a kept row in the result
kept_rows == (1..Len(treatment_record)) \ procedures_to_delete'

place(i) == Cardinality({j \in kept_rows : j <= i})

\* C6: a change of the price table leaves the Cost of the entries alone, and a
\* management update keeps the Cost of every row whose procedure name it does
\* not change.
C6_CostIsSnapshot ==
    [][/\ button' \in {"save_procedure", "delete_procedure"}
          => treatment_record' = treatment_record /\ patients' = patients
       /\ button' = "update"
          => \A i \in kept_rows :
                 treatment_record'[place(i)].Procedure = treatment_record[i].Procedure
                 => treatment_record'[place(i)].Cost = treatment_record[i].Cost]_vars

\* C6 witness: after a price change an update has run, and an entry still
\* carries a cost that is not its procedure's current price.
C6_Witness ==
    /\ button = "update"
    /\ \E e \in Range(treatment_record) :
           /\ e.Procedure \in DOMAIN price_estimates
           /\ e.Cost # price_estimates[e.Procedure]

C8_DurationAtLeastOneDay == \A e \in all_entries : e.Duration >= 1

\* C8 witness: an update stored the shortest duration the input admits.
C8_Witness ==
    /\ button = "update"
    /\ \E e \in Range(treatment_record) : e.Duration = 1

\* the submitted forms that differ in their action selectors only
ActionForms ==
    [1..Len(treatment_record) ->
         FormRows({treatment_procedures[1]}, {"Pending"}, Todays, {DefaultDuration},
                  {"keep", "delete"})]

\* C9: a management update removes exactly the rows whose action selector in
\* the submitted form reads "delete" (the rows the handler collects in
\* procedures_to_delete); every other row is kept, in its original order; the
\* update is applied whatever the form holds, and without marked rows nothing
\* is removed.
C9_UpdateRemovesMarkedRows ==
    [][button' = "update"
       => /\ procedures_to_delete' \subseteq 1..Len(treatment_record)
          /\ Len(treatment_record') = Cardinality(kept_rows)
          /\ \A i \in kept_rows :
                 treatment_record'[place(i)].Tooth = treatment_record[i].Tooth
          /\ \A form \in ActionForms :
                 procedures_to_delete' = marked_for_deletion(form)
                 => \A i \in DOMAIN form :
                        form[i].action = "delete" <=> i \notin kept_rows
          /\ notice' = "none"]_vars

\* C9 witness: an update deleted the first of two rows and kept the second.
C9_Witness ==
    /\ button = "update"
    /\ procedures_to_delete = {1}
    /\ Len(treatment_record) = 1

\* C10: with a discount input of at least 0, the discount of the cost summary
\* is min(discount input, total), lies between 0 and the total, and without
\* VAT the final total is not negative.
C10_DiscountClamped ==
    /\ cost_summary.total_price >= 0
    /\ cost_summary.discount_calculation >= 0
    /\ cost_summary.discount_calculation <= cost_summary.total_price
    /\ (patient_status /\ treatment_record # <<>>)
       => /\ discount_amount <= cost_summary.total_price
             => cost_summary.discount_calculation = discount_amount
          /\ discount_amount > cost_summary.total_price
             => cost_summary.discount_calculation = cost_summary.total_price
    /\ ~tax_apply => cost_summary.final_calculation >= 0

\* C10 witness: total 300.00, discount input 400.00, no VAT: discount 300.00
\* and final total 0.
C10_Witness ==
    /\ cost_summary.total_price = 30000
    /\ discount_amount = 40000
    /\ ~tax_apply
    /\ cost_summary.discount_calculation = 30000
    /\ cost_summary.final_calculation = 0

\* the sum of the costs of the first n rows
RECURSIVE reference_total(_, _)
reference_total(record, n) ==
    IF n = 0 THEN 0 ELSE reference_total(record, n - 1) + record[n].Cost

\* C11: while a patient with a non-empty ledger is active, the cost summary is
\* the reference computation: total is the sum of the Cost of the ledger's
\* entries, tax is 15% of the total when the VAT box is ticked and 0
\* otherwise, and final = total - discount + tax (amounts in hundredths).
C11_SummaryIsReference ==
    (patient_status /\ treatment_record # <<>>)
    => /\ cost_summary.total_price
              = reference_total(treatment_record, Len(treatment_record))
       /\ cost_summary.tax_calculation * 100
              = (IF tax_apply THEN cost_summary.total_price * 15 ELSE 0)
       /\ cost_summary.final_calculation
              = cost_summary.total_price - cost_summary.discount_calculation
                    + cost_summary.tax_calculation

\* C11 witness: total 200.00 with VAT and a discount of 50.00: tax 30.00 and
\* final total 180.00.
C11_Witness ==
    /\ patient_status
    /\ Len(treatment_record) = 2
    /\ cost_summary.total_price = 20000
    /\ tax_apply
    /\ discount_amount = 5000
    /\ cost_summary.tax_calculation = 3000
    /\ cost_summary.final_calculation = 18000

\* a figure of the report is a number below 0
negative(figure) == is_number(figure) /\ figure.value < 0

\* C12: a negative discount input never gets into a computation: the discount
\* input of the session, the discount of every cost summary and the figures
\* handed to the report generator are never below 0.
C12_NoNegativeDiscount ==
    /\ discount_amount >= 0
    /\ cost_summary.discount_calculation >= 0
    /\ report.status # "none"
       => /\ ~negative(report.currency_symbol)
          /\ ~negative(report.discount)
          /\ ~negative(report.vat)
          /\ ~negative(report.total_cost)

\* C12 witness: a change of the cost inputs was applied with a discount, and
\* a report was requested for it afterwards.
C12_Witness ==
    /\ button = "generate_report"
    /\ discount_amount > 0
    /\ cost_summary.discount_calculation > 0

\* C13: the figures the report generator works with are those of the cost
\* summary: discount, tax and total received by generate_pdf are the summary's
\* discount_calculation, tax_calculation and total_price, and the final cost
\* written in the report is the summary's final total.
C13_ReportFiguresAreSummary ==
    report.status # "none"
    => /\ report.status = "generated"
       /\ report.discount = number(cost_summary.discount_calculation)
       /\ report.vat = number(cost_summary.tax_calculation)
       /\ report.total_cost = number(cost_summary.total_price)
       /\ report.final_cost = number(cost_summary.final_calculation)

\* the runs of the Treatment page that render the chart of the patient they
\* found active, with and without a changed selector
SamePatientRuns ==
    {"select_condition", "add", "update", "cost_inputs", "generate_report",
     "edit_patient", "save_patient", "cancel_edit"}

\* The chart a run hands to render_chart: the stored chart of the patient a
\* search loaded, the empty chart of a new patient, and otherwise the chart
\* of the session.
chart_before ==
    IF button' = "search" /\ notice' = "patient_found"
    THEN get(charts, path(doctor_email, patient_selected'.file_id), <<>>)
    ELSE IF button' = "register" /\ notice' = "registered"
    THEN <<>>
    ELSE dental_chart

\* the run rendered a chart and the user changed no selector in it
reconciled == patient_status' /\ button' \in {"search", "register"}

selections == [t \in DOMAIN tooth_condition \cap Range(teeth_rows) |-> tooth_condition[t]]

path_after == path(doctor_email, patient_selected'.file_id)

ledger_written ==
    /\ wrote = "treatment_plan"
    /\ button \in {"add", "update"}
    /\ notice # "db_error"

\* C22: a ledger written as treatment_plan and loaded again by a search of
\* the same patient is the ledger that was written: the same entries with the
\* same field values, in the same order.
C22_LedgerRoundTrip ==
    [][(/\ ledger_written
        /\ button' = "search"
        /\ notice' = "patient_found"
        /\ patient_selected'.file_id = patient_selected.file_id)
       => treatment_record' = treatment_record]_vars

\* C22 witness: a search loaded a stored ledger of two entries on two teeth.
C22_Witness ==
    /\ button = "search"
    /\ notice = "patient_found"
    /\ Len(treatment_record) = 2
    /\ treatment_record[1].Tooth # treatment_record[2].Tooth
    /\ treatment_record = patients[selected_path].treatment_plan

\* C23: with two sessions on the same patient there is no conflict detection:
\* whatever the other session stored, a ledger write is accepted and the
\* stored treatment_plan is then the whole in-memory ledger of the session
\* that wrote last (last write wins).
C23_LastWriteWins ==
    ledger_written => patients[selected_path].treatment_plan = treatment_record

\* C23 witness: both sessions wrote the ledger of the same patient, and the
\* stored list lacks an entry the first writer had stored.
C23_Witness ==
    /\ ledger_written
    /\ parked.wrote = "treatment_plan"
    /\ parked.patient_status
    /\ parked.patient_selected.file_id = patient_selected.file_id
    /\ \E e \in Range(parked.treatment_record) :
           e \notin Range(patients[selected_path].treatment_plan)

\* the documents other than the given one are as they were
others_unchanged(before, after, doc) ==
    /\ DOMAIN before \subseteq DOMAIN after
    /\ \A f \in DOMAIN before : f # doc => after[f] = before[f]

\* C24: a ledger write sets the treatment_plan of the active patient's
\* document and nothing else: its name, age, gender, file_id and dental_chart
\* stay as they were.  A chart write sets that document's dental_chart and
\* nothing else.  Neither changes the document of another patient.
C24_WritesSetOneField ==
    [][/\ button' \in {"add", "update"}
          => /\ DOMAIN patients' = DOMAIN patients
             /\ others_unchanged(patients, patients', selected_path)
             /\ \A f \in DOMAIN patients :
                    patients'[f] = [patients[f] EXCEPT !.treatment_plan =
                                                         patients'[f].treatment_plan]
       /\ button' \in {"select_condition", "add", "update", "search"}
          => /\ others_unchanged(charts, charts', path_after)
             /\ DOMAIN charts' = DOMAIN charts
       /\ button' \in {"select_condition", "search"} => patients' = patients]_vars

\* C24 witness: the store holds two patients; the last run wrote the ledger
\* of the active one, whose stored chart holds a condition, and the other
\* patient's document holds another ledger.
C24_Witness ==
    /\ ledger_written
    /\ \E f \in DOMAIN patients :
           /\ f # selected_path
           /\ patients[f].treatment_plan # patients[selected_path].treatment_plan
    /\ \E t \in DOMAIN get(charts, selected_path, <<>>) :
           charts[selected_path][t] # "Healthy"

\* the form row of an entry as the table renders it, with another status
row_with_status(item, status) ==
    [procedure |-> item.Procedure, status |-> status,
     start_date |-> strptime(item.StartDate), duration |-> item.Duration,
     action |-> "keep"]

\* C25: the Status of every entry, in the session and in the store, is one of
\* "Pending", "In Progress" and "Completed", and an update sets the status
\* the row's selector holds whatever the entry's status was: every entry can
\* go to each of the three, a completed one back to "Pending" too.
C25_StatusIsFree ==
    /\ \A e \in all_entries : e.Status \in Range(StatusOptions)
    /\ \A i \in 1..Len(treatment_record), s \in Range(StatusOptions) :
           updated_treatments(treatment_record,
                              [j \in 1..Len(treatment_record) |->
                                   row_with_status(treatment_record[j],
                                                   IF j = i THEN s
                                                   ELSE treatment_record[j].Status)],
                              {}, 1)[i].Status = s

\* C25 witness: an update left a completed entry and an entry in progress in
\* the ledger and in the store.
C25_Witness ==
    /\ button = "update"
    /\ Len(treatment_record) = 2
    /\ treatment_record[1].Status = "Completed"
    /\ treatment_record[2].Status = "In Progress"
    /\ patients[selected_path].treatment_plan = treatment_record

\* the runs of the Treatment page that render a chart
rendered_chart == patient_status' /\ button' \in SamePatientRuns \cup {"search", "register"}

\* the last tooth of the layout, row after row, that is in the set
last_in_rows(set) ==
    teeth_rows[CHOOSE i \in 1..Len(teeth_rows) :
                   /\ teeth_rows[i] \in set
                   /\ \A j \in (i + 1)..Len(teeth_rows) : teeth_rows[j] \notin set]

\* the teeth of the chart whose condition is not "Healthy"
unhealthy(chart) == {t \in DOMAIN chart \cap Range(teeth_rows) : chart[t] # "Healthy"}

\* the teeth the render of the run changed to a condition other than "Healthy"
changed_to_unhealthy ==
    {t \in unhealthy(dental_chart') :
         t \notin DOMAIN chart_before \/ chart_before[t] # dental_chart'[t]}

teeth_of(record) == [i \in 1..Len(record) |-> record[i].Tooth]

\* C27: a management update never changes the Tooth of an entry and never
\* reorders or duplicates entries: the resulting ledger, in the session and in
\* the store, has one entry per kept row, in the original order, each with
\* the Tooth it had and with the same fields; only the other fields' values
\* can differ.
C27_UpdateKeepsTeethAndOrder ==
    [][button' = "update"
       => /\ teeth_of(treatment_record')
                 = [k \in 1..Cardinality(kept_rows) |->
                        treatment_record[CHOOSE i \in kept_rows : place(i) = k].Tooth]
          /\ \A i \in kept_rows :
                 DOMAIN treatment_record'[place(i)] = DOMAIN treatment_record[i]
          /\ teeth_of(patients'[selected_path].treatment_plan)
                 = teeth_of(treatment_record')]_vars

\* C27 witness: an update kept two rows on two teeth and changed the status
\* and the schedule of the second.
C27_Witness ==
    /\ button = "update"
    /\ procedures_to_delete = {}
    /\ teeth_of(treatment_record) = <<"12", "11">>
    /\ treatment_record[2].Status = "Completed"
    /\ treatment_record[2].Duration # DefaultDuration
    /\ treatment_record[1].Status = "Pending"

\* the key of a stored item: its name, which is everything before the date
\* in its id, and its expiry date
key_of(id) == <<SubSeq(id, 1, Len(id) - 1), id[Len(id)]>>

\* the doctor's items before the run
inventory_before == fetch_stock(stock, doctor_email)

\* C28: items are keyed by (lower-cased name, expiry date) and no key is
\* ever overwritten: an add or an import leaves every stored item as it was,
\* and an edit that changes the expiry date of an item to a date for which
\* an item of the same name exists is refused and changes no item.
C28_KeysNeverOverwritten ==
    [][/\ button' \in {"add_item", "import_items"}
          => \A k \in DOMAIN stock : k \in DOMAIN stock' /\ stock'[k] = stock[k]
       /\ \A id \in matching_items, e \in ExpiryInputs, d \in Todays :
              (/\ button' = "save_item"
               /\ id \in DOMAIN inventory_before
               /\ strftime(e) # key_of(id)[2]
               /\ \E other \in DOMAIN inventory_before :
                      key_of(other) = <<key_of(id)[1], strftime(e)>>
               /\ SaveItem(id, 0, e, d, TRUE))
              => /\ notice' = "cannot_update"
                 /\ stock' = stock]_vars

\* what a handler of the inventory tab reports when it changed the stock
StockChanged ==
    {"item_added", "imported", "item_updated", "item_updated_new_expiry",
     "item_removed"}

InventoryButtons ==
    {"visit_inventory", "enable", "disable", "update_email", "add_item",
     "import_items", "find_item", "save_item", "delete_item"}

\* the items of the doctor that are within the warning period after the run
expiring_after ==
    UNION {expiry_items(fetch_stock(stock', doctor_email), d, DaysThreshold) :
               d \in Todays}

\* C29: an automatic expiry alert is sent at most once between resets of
\* email_alert_sent.  While the flag is set no run sends, or tries to send,
\* an automatic alert, unless an add, import, edit or delete of that run
\* reset it first.  The flag is reset only by those, by enabling the alerts,
\* by changing the address, or by a run without expiring items.  A failed
\* send leaves the flag unset, and a run that finds it unset with alerts
\* enabled and items expiring tries to send.
C29_AlertOncePerReset ==
    [][button' \in InventoryButtons
       => /\ (email_alert_sent /\ alert_notice' # "none") => notice' \in StockChanged
          /\ (email_alert_sent /\ ~email_alert_sent')
                 => \/ notice' \in StockChanged
                    \/ button' \in {"enable", "update_email"}
                    \/ expiring_after = {}
          /\ alert_notice' = "failed" => ~email_alert_sent'
          /\ (alert_notice' = "sent" /\ button' # "update_email") => email_alert_sent'
          /\ (/\ button' = "visit_inventory"
              /\ ~email_alert_sent /\ enable_email_alerts /\ alert_email # ""
              /\ expiring_after # {})
                 => alert_notice' \in {"sent", "failed"}]_vars

\* C29 witness: a run of the page with alerts enabled and an item expiring
\* sent no alert because one had been sent.
C29_Witness ==
    /\ button = "visit_inventory"
    /\ email_alert_sent
    /\ enable_email_alerts
    /\ alert_notice = "none"
    /\ \E d \in Todays :
           expiry_items(fetch_stock(stock, doctor_email), d, DaysThreshold) # {}

\* the documents of the store
store == <<patients, charts, settings, stock, alert_emails>>

\* C30: while the session holds no doctor_email, from the start or after a
\* logout, no run of the Treatment, Inventory or Settings page goes past the
\* authentication check, so none reads the store, and the store stays as it
\* is; this lasts until a doctor signs in.
C30_NoAccessWithoutDoctor ==
    [][(doctor_email = "" /\ button' # "log_in")
       => /\ ~page_access'
          /\ doctor_email' = ""
          /\ UNCHANGED store]_vars

\* C30 witness: after a logout a page was opened and refused, with patients
\* and stock in the store.
C30_Witness ==
    /\ doctor_email = ""
    /\ button \in Pages
    /\ notice = "auth_required"
    /\ ~page_access
    /\ DOMAIN patients # {}
    /\ DOMAIN stock # {}

====
